---- MODULE Spec2Model ----
(***************************************************************************)
(* A model of ms_graphrag_wrapper: the lexical retriever                   *)
(* (MDContextBuilder.build_context), the streaming generation client       *)
(* (CustomLLM.agenerate / _execute_llm) and the search orchestrator        *)
(* (LocalSearch.asearch).                                                  *)
(*                                                                         *)
(* A Python str is a sequence of symbols.  The symbols that matter are     *)
(* single characters ("a", "B", " "); a fixed piece of text whose inside   *)
(* no code path looks into (the apology, an error message) is one symbol.  *)
(***************************************************************************)
EXTENDS Integers, Sequences, FiniteSets

VARIABLES
    documents,      \* MDContextBuilder.documents: the store, in store order
    llm_params,     \* LocalSearch.llm_params
    pc,             \* position of the call in flight
    caller,         \* who called agenerate: "asearch", "direct" or "none"
    query,          \* the query of the call in flight
    doc_scores,     \* build_context: the score computed for each document
    context,        \* the ContextBuilderResult of build_context
    messages,       \* agenerate's messages argument
    kwargs,         \* agenerate's **kwargs
    payload,        \* the "parameters" object of the JSON body posted
    posts,          \* number of HTTP POSTs issued
    llm_calls,      \* number of agenerate invocations
    status,         \* HTTP status of the response (0: none yet)
    arrived,        \* the lines the response stream has yielded, in order
    full_response,  \* _execute_llm's accumulator
    outcome,        \* how _execute_llm ended
    response,       \* the outcome of agenerate
    tokenizer,      \* what token_encoder.encode did in asearch
    result          \* the outcome of asearch

vars == <<documents, llm_params, pc, caller, query, doc_scores, context,
          messages, kwargs, payload, posts, llm_calls, status, arrived,
          full_response, outcome, response, tokenizer, result>>

-----------------------------------------------------------------------------
(* Bounds of the model *)

MaxDocs == 6
MaxQueryLen == 3
MaxLines == 3

(* Program constants *)

TopK == 5
TruncLen == 1000
DefaultMaxNewTokens == 1000
DefaultTemperature == 70
DefaultTopP == 95
DefaultRepetitionPenalty == 100
SearchMaxTokens == 1500
SearchTemperature == 0
SearchTopP == 95
SearchRepetitionPenalty == 100
StatusOK == 200

-----------------------------------------------------------------------------
(* Python str operations *)

Min(a, b) == IF a < b THEN a ELSE b

IsSpace(c) == c = " "

\* str.lower(), one symbol
LowerChar(c) == IF c = "A" THEN "a" ELSE IF c = "B" THEN "b" ELSE c

RECURSIVE Lower(_)
\* str.lower()
Lower(s) == IF s = <<>> THEN <<>> ELSE <<LowerChar(Head(s))>> \o Lower(Tail(s))

RECURSIVE LStrip(_)
\* str.lstrip()
LStrip(s) == IF s # <<>> /\ IsSpace(Head(s)) THEN LStrip(Tail(s)) ELSE s

RECURSIVE RStrip(_)
\* str.rstrip()
RStrip(s) ==
    IF s # <<>> /\ IsSpace(s[Len(s)]) THEN RStrip(SubSeq(s, 1, Len(s) - 1)) ELSE s

\* str.strip()
Strip(s) == RStrip(LStrip(s))

RECURSIVE SplitFrom(_, _, _)
\* str.split() scanning s with the word being read in cur and the words read in acc
SplitFrom(s, cur, acc) ==
    IF s = <<>>
    THEN IF cur = <<>> THEN acc ELSE Append(acc, cur)
    ELSE IF IsSpace(Head(s))
         THEN SplitFrom(Tail(s), <<>>, IF cur = <<>> THEN acc ELSE Append(acc, cur))
         ELSE SplitFrom(Tail(s), Append(cur, Head(s)), acc)

\* str.split(): the maximal runs of non-whitespace, in order
Split(s) == SplitFrom(s, <<>>, <<>>)

\* term in text
Contains(text, term) ==
    \E i \in 0..(Len(text) - Len(term)) : SubSeq(text, i + 1, i + Len(term)) = term

\* text[:n]
Prefix(s, n) == SubSeq(s, 1, Min(n, Len(s)))

-----------------------------------------------------------------------------
(* MDContextBuilder.build_context *)

\* Score, were a repeated query term counted once
Score_Distinct(query_terms, text) ==
    Cardinality({query_terms[i] : i \in {j \in 1..Len(query_terms) :
                                           Contains(text, query_terms[j])}})

RECURSIVE Score(_, _)
\* sum(1 for term in query_terms if term in text)
Score(query_terms, text) ==
    IF query_terms = <<>> THEN 0
    ELSE (IF Contains(text, Head(query_terms)) THEN 1 ELSE 0)
         + Score(Tail(query_terms), text)

\* the score of every document of the store, in store order
ScoreAll(docs, q) ==
    LET query_terms == Split(Lower(q))
    IN  [i \in 1..Len(docs) |-> Score(query_terms, Lower(docs[i].text))]

RECURSIVE Matched(_, _, _)
\* matched_docs: a (doc, score) pair for each document with score > 0
Matched(docs, scores, i) ==
    IF i > Len(docs) THEN <<>>
    ELSE (IF scores[i] > 0 THEN <<[doc |-> docs[i], score |-> scores[i]]>> ELSE <<>>)
         \o Matched(docs, scores, i + 1)

\* InsertDesc, were the sort to put a later document before its equals
InsertDesc_Unstable(acc, e) ==
    LET k == Cardinality({j \in 1..Len(acc) : acc[j].score > e.score})
    IN  SubSeq(acc, 1, k) \o <<e>> \o SubSeq(acc, k + 1, Len(acc))

\* where a stable descending sort puts e among the already sorted acc
InsertDesc(acc, e) ==
    LET k == Cardinality({j \in 1..Len(acc) : acc[j].score >= e.score})
    IN  SubSeq(acc, 1, k) \o <<e>> \o SubSeq(acc, k + 1, Len(acc))

RECURSIVE SortFrom(_, _)
SortFrom(pairs, acc) ==
    IF pairs = <<>> THEN acc ELSE SortFrom(Tail(pairs), InsertDesc(acc, Head(pairs)))

\* matched_docs.sort(key=lambda x: x[1], reverse=True): stable, descending
SortByScore(pairs) == SortFrom(pairs, <<>>)

\* matched_docs[:5] if matched_docs else self.documents[:5]
TopDocs(matched, docs) ==
    IF matched # <<>> THEN Prefix(matched, TopK) ELSE Prefix(docs, TopK)

\* "for doc, score in top_docs": a (doc, score) pair unpacks; a document, a
\* dict with the keys "text" and "metadata", unpacks into its two key names,
\* and doc['metadata'] on the str "text" raises TypeError
Unpacks(e) == "score" \in DOMAIN e

\* one block of context_text
Block(e) ==
    [source |-> e.doc.metadata.source, score |-> e.score,
     content |-> Prefix(e.doc.text, TruncLen)]

\* one row of context_records["documents"]
Row(e) == [text |-> e.doc.text, score |-> e.score, source |-> e.doc.metadata.source]

RECURSIVE Blocks(_)
\* the blocks of context_text, one per entry of top_docs
Blocks(top_docs) ==
    IF top_docs = <<>> THEN <<>> ELSE <<Block(Head(top_docs))>> \o Blocks(Tail(top_docs))

RECURSIVE Rows(_)
\* the rows of context_records["documents"], one per entry of top_docs
Rows(top_docs) ==
    IF top_docs = <<>> THEN <<>> ELSE <<Row(Head(top_docs))>> \o Rows(Tail(top_docs))

\* the str "": context_chunks of the except branch
EmptyChunks == [template |-> FALSE, blocks |-> <<>>]

\* system_message: the instruction template around the joined blocks
SystemMessage(blocks) == [template |-> TRUE, blocks |-> blocks]

\* the ContextBuilderResult of the except branch
EmptyContext ==
    [context_chunks |-> EmptyChunks, context_records |-> <<>>,
     llm_calls |-> 0, output_tokens |-> 0]

\* build_context(query) on the store docs
BuildContext(docs, q) ==
    LET scores   == ScoreAll(docs, q)
        matched  == SortByScore(Matched(docs, scores, 1))
        top_docs == TopDocs(matched, docs)
    IN  IF \E i \in 1..Len(top_docs) : ~Unpacks(top_docs[i])
        THEN EmptyContext
        ELSE [context_chunks |-> SystemMessage(Blocks(top_docs)),
              context_records |-> Rows(top_docs),
              llm_calls |-> 0, output_tokens |-> 0]

-----------------------------------------------------------------------------
(* Values *)

\* Python None and str values
None == [kind |-> "None", text |-> <<>>]
Str(s) == [kind |-> "str", text |-> s]

\* how a call ends: it returns a value or raises an exception
Ret(v) == [raised |-> FALSE, val |-> v]
Raise(e) == [raised |-> TRUE, val |-> e]

\* bool(v) of None or a str
Truthy(v) == v.kind = "str" /\ v.text # <<>>

\* dict.get(k, d)
Get(d, k, default) == IF k \in DOMAIN d THEN d[k] ELSE default

\* all sequences over S of length at most n
SeqsUpTo(S, n) == UNION {[1..k -> S] : k \in 0..n}

-----------------------------------------------------------------------------
(* CustomLLM._execute_llm and CustomLLM.agenerate *)

\* msg.get('role', 'user').upper()
UpperRole(msg) ==
    LET r == Get(msg, "role", "user")
    IN  IF r = "system" THEN "SYSTEM" ELSE IF r = "user" THEN "USER" ELSE "ASSISTANT"

\* the prompt: "<ROLE>: <content>" per message, then the assistant marker;
\* msg['content'] raises KeyError on a message without content
FormatPrompt(input) ==
    IF \E i \in 1..Len(input) : "content" \notin DOMAIN input[i]
    THEN Raise(Str(<<"KeyError: 'content'">>))
    ELSE Ret([turns |-> [i \in 1..Len(input) |->
                           [role |-> UpperRole(input[i]), content |-> input[i].content]],
              marker |-> "ASSISTANT:"])

\* the **kwargs _execute_llm receives from agenerate: the caller's keyword
\* arguments arrive as the one entry model_parameters
ExecKwargs(streaming, callbacks, kw) ==
    [streaming |-> streaming, callbacks |-> callbacks, model_parameters |-> kw]

\* the JSON body: payload
BuildPayload(prompt, ekw) ==
    [inputs |-> prompt,
     parameters |->
        [max_new_tokens     |-> Get(ekw, "max_tokens", DefaultMaxNewTokens),
         temperature        |-> Get(ekw, "temperature", DefaultTemperature),
         top_p              |-> Get(ekw, "top_p", DefaultTopP),
         do_sample          |-> TRUE,
         repetition_penalty |-> Get(ekw, "repetition_penalty", DefaultRepetitionPenalty)]]

NoPayload == [inputs |-> <<>>, parameters |-> <<>>]

\* the text of the tokens the server may send
TokenTexts == {<<>>, <<" ">>, <<"a">>, <<"b">>}

\* what json.loads and the token lookup can meet in a "data: " line
\*   malformed     not JSON
\*   scalar        a JSON number, null or boolean
\*   no_token      an object without "token"
\*   token_scalar  "token" is a number, null or boolean
\*   no_text       "token" is an object without "text"
\*   text_not_str  "text" is a number or null
\*   token         {"token": {"text": <str>}}
JsonKinds == {"malformed", "scalar", "no_token", "token_scalar", "no_text", "text_not_str"}

\* the lines response.content may yield
TokenEvent(t) == [line |-> "data", json |-> "token", text |-> t]
Events ==
    {TokenEvent(t) : t \in TokenTexts}
    \cup {[line |-> "data", json |-> k, text |-> <<>>] : k \in JsonKinds}
    \cup {[line |-> l, json |-> "", text |-> <<>>] : l \in {"nondata", "bad_utf8"}}

\* ProcessLine, were json.JSONDecodeError not caught inside the loop
ProcessLine_AbortOnMalformed(acc, ev) ==
    IF ev.line = "bad_utf8" THEN Raise(Str(<<"UnicodeDecodeError">>))
    ELSE IF ev.line # "data" THEN Ret(acc)
    ELSE IF ev.json \in {"malformed", "scalar", "token_scalar", "text_not_str"}
         THEN Raise(Str(<<"Error">>))
    ELSE IF ev.json \in {"no_token", "no_text"} THEN Ret(acc)
    ELSE Ret(acc \o ev.text)

\* the body of "async for line in response.content" for one line, with the
\* accumulator acc: the new accumulator, or the exception that leaves the loop
ProcessLine(acc, ev) ==
    IF ev.line = "bad_utf8" THEN Raise(Str(<<"UnicodeDecodeError">>))
    ELSE IF ev.line # "data" THEN Ret(acc)
    ELSE IF ev.json = "malformed" THEN Ret(acc)
    ELSE IF ev.json = "scalar" THEN Raise(Str(<<"TypeError">>))
    ELSE IF ev.json = "no_token" THEN Ret(acc)
    ELSE IF ev.json = "token_scalar" THEN Raise(Str(<<"TypeError">>))
    ELSE IF ev.json = "no_text" THEN Ret(acc)
    ELSE IF ev.json = "text_not_str" THEN Raise(Str(<<"TypeError">>))
    ELSE Ret(acc \o ev.text)

\* StreamExcept, were the partial response discarded
StreamExcept_Discard(acc) == Ret(None)

\* except Exception while reading the stream: the partial response, if any
StreamExcept(acc) == IF acc # <<>> THEN Ret(Str(Strip(acc))) ELSE Ret(None)

\* return full_response.strip() if full_response else None
StreamEnd(acc) == IF acc # <<>> THEN Ret(Str(Strip(acc))) ELSE Ret(None)

\* the outer "except Exception" of _execute_llm
ExecuteLlmCatch(o) == IF o.raised THEN Ret(None) ELSE o

\* AgenerateReturn, were it "return result"
AgenerateReturn_NoOr(o) == IF o.raised THEN Ret(Str(<<>>)) ELSE o

\* agenerate: "return result or ''", and '' on any exception
AgenerateReturn(o) ==
    IF o.raised THEN Ret(Str(<<>>))
    ELSE IF Truthy(o.val) THEN Ret(o.val) ELSE Ret(Str(<<>>))

-----------------------------------------------------------------------------
(* LocalSearch.asearch *)

\* the two-message request: the instructions with the context, then the query
SearchMessages(ctx, q) ==
    <<[role |-> "system",
       content |-> [instructions |-> "You are a helpful AI assistant.",
                    context |-> ctx.context_chunks]],
      [role |-> "user", content |-> q]>>

\* the keyword arguments of asearch's agenerate call
SearchKwargs(params) ==
    [max_tokens         |-> Get(params, "max_tokens", SearchMaxTokens),
     temperature        |-> Get(params, "temperature", SearchTemperature),
     top_p              |-> Get(params, "top_p", SearchTopP),
     repetition_penalty |-> Get(params, "repetition_penalty", SearchRepetitionPenalty)]

Apology ==
    <<"I apologize, but I was unable to generate a response. Please try rephrasing your question.">>

\* metric values: numbers, and in the except branch the error text
Num(n) == [kind |-> "num", num |-> n]
Text(s) == [kind |-> "str", str |-> s]

RECURSIVE BlocksLen(_)
BlocksLen(blocks) ==
    IF blocks = <<>> THEN 0 ELSE 3 + Len(Head(blocks).content) + BlocksLen(Tail(blocks))

\* len(context_chunks) in symbols: the template's head and tail, and per block
\* its source, its score, its separator and its content
ChunksLen(c) == IF c.template THEN 2 + BlocksLen(c.blocks) ELSE 0

\* asearch's try block after agenerate has ended as resp; enc is what the
\* tokenizer does ("ok", or "raise": token_encoder.encode raises).  The
\* tokenizer is external: it is taken to give one token per symbol.
AsearchBody(ctx, q, resp, enc) ==
    IF resp.raised THEN resp
    ELSE LET r == IF ~Truthy(resp.val) THEN Apology ELSE resp.val.text
         IN  IF enc = "raise" THEN Raise(Str(<<"encode failed">>))
             ELSE Ret([response     |-> r,
                       context_text |-> ctx.context_chunks,
                       metrics      |->
                          [context_tokens       |-> Num(ChunksLen(ctx.context_chunks)),
                           response_tokens      |-> Num(IF r # <<>> THEN Len(r) ELSE 0),
                           matched_documents    |-> Num(Len(ctx.context_records)),
                           total_context_length |-> Num(ChunksLen(ctx.context_chunks)),
                           query_length         |-> Num(Len(q))],
                       success      |-> (r # <<>> /\ Strip(r) # <<>>),
                       matched_docs |-> Len(ctx.context_records)])

\* the SearchResult of asearch's except branch
ErrorResult(e) ==
    [response     |-> <<"An error occurred while processing your query: ">> \o e.text,
     context_text |-> EmptyChunks,
     metrics      |-> [context_tokens    |-> Num(0),
                       response_tokens   |-> Num(0),
                       matched_documents |-> Num(0),
                       error             |-> Text(e.text)],
     success      |-> FALSE,
     matched_docs |-> 0]

\* AsearchCatch, were there no except branch
AsearchCatch_Propagate(o) == o

\* asearch's "except Exception"
AsearchCatch(o) == IF o.raised THEN Ret(ErrorResult(o.val)) ELSE o

NoResult == Ret(None)

-----------------------------------------------------------------------------
(* Inputs *)

RECURSIVE MakeStoreFrom(_, _)
MakeStoreFrom(texts, i) ==
    IF texts = <<>> THEN <<>>
    ELSE <<[text |-> Head(texts), metadata |-> [source |-> i]]>>
         \o MakeStoreFrom(Tail(texts), i + 1)

\* the documents FileProcessor.read_md_files gives for these texts: the i-th
\* file read has source i
MakeStore(texts) == MakeStoreFrom(texts, 1)

DocTexts == {<<"A">>, <<"a", "b">>, <<"c">>}
QueryChars == {"a", "B", " "}

Stores == {MakeStore(ts) : ts \in SeqsUpTo(DocTexts, MaxDocs)}
Queries == SeqsUpTo(QueryChars, MaxQueryLen)

SearchStores == {MakeStore(<<>>), MakeStore(<< <<"a", "b">>, <<"A">> >>)}
SearchQueries == {<<"a", " ", "B">>, <<"c">>}
LlmParamChoices ==
    {[max_tokens |-> 1500, temperature |-> 0],
     [max_tokens |-> 2000, temperature |-> 70, top_p |-> 90, repetition_penalty |-> 120]}

DirectMessages ==
    {<<[role |-> "user", content |-> <<"a">>]>>,
     <<[role |-> "user"]>>}
DirectKwargs == {[max_tokens |-> 20], [max_tokens |-> 200, temperature |-> 70]}

Statuses == {200, 204, 500}

-----------------------------------------------------------------------------
(* The state machine *)

InitCall ==
    /\ pc = "idle"
    /\ caller = "none"
    /\ query = <<>>
    /\ doc_scores = <<>>
    /\ context = EmptyContext
    /\ messages = <<>>
    /\ kwargs = <<>>
    /\ payload = NoPayload
    /\ posts = 0
    /\ llm_calls = 0
    /\ status = 0
    /\ arrived = <<>>
    /\ full_response = <<>>
    /\ outcome = "none"
    /\ response = Ret(None)
    /\ tokenizer = "none"
    /\ result = NoResult

Init ==
    /\ documents \in SearchStores
    /\ llm_params \in LlmParamChoices
    /\ InitCall

\* agenerate(msgs, **kw) up to the POST: _execute_llm formats the prompt and
\* builds the payload; an exception there ends the call
CallAgenerate(msgs, kw) ==
    LET prompt == FormatPrompt(msgs)
    IN  /\ messages' = msgs
        /\ kwargs' = kw
        /\ llm_calls' = llm_calls + 1
        /\ IF prompt.raised
           THEN /\ payload' = payload
                /\ outcome' = "bad_messages"
                /\ response' = AgenerateReturn(ExecuteLlmCatch(prompt))
                /\ pc' = "returned"
           ELSE /\ payload' = BuildPayload(prompt.val, ExecKwargs(FALSE, None, kw))
                /\ outcome' = outcome
                /\ response' = response
                /\ pc' = "post"

\* asearch(q) up to the POST
AsearchStart(q) ==
    /\ pc = "idle"
    /\ caller' = "asearch"
    /\ query' = q
    /\ doc_scores' = ScoreAll(documents, q)
    /\ context' = BuildContext(documents, q)
    /\ CallAgenerate(SearchMessages(BuildContext(documents, q), q), SearchKwargs(llm_params))
    /\ UNCHANGED <<documents, llm_params, posts, status, arrived, full_response, tokenizer, result>>

\* main's own agenerate calls
DirectGenerate(msgs, kw) ==
    /\ pc = "idle"
    /\ caller' = "direct"
    /\ CallAgenerate(msgs, kw)
    /\ UNCHANGED <<documents, llm_params, query, doc_scores, context, posts, status,
                   arrived, full_response, tokenizer, result>>

\* _execute_llm ends with o, and agenerate with it
Finish(how, o) ==
    /\ outcome' = how
    /\ response' = AgenerateReturn(ExecuteLlmCatch(o))
    /\ pc' = "returned"

\* PostFails, were a failed POST issued once more before giving up
PostFails_Retry(how) ==
    /\ pc = "post"
    /\ posts' = posts + 1
    /\ IF posts < 1
       THEN UNCHANGED <<pc, outcome, response>>
       ELSE Finish(how, Ret(None))
    /\ UNCHANGED <<documents, llm_params, caller, query, doc_scores, context, messages,
                   kwargs, payload, llm_calls, status, arrived, full_response, tokenizer,
                   result>>

\* session.post raises aiohttp.ClientError or asyncio.TimeoutError
PostFails(how) ==
    /\ pc = "post"
    /\ posts' = posts + 1
    /\ Finish(how, Ret(None))
    /\ UNCHANGED <<documents, llm_params, caller, query, doc_scores, context, messages,
                   kwargs, payload, llm_calls, status, arrived, full_response, tokenizer, result>>

\* the server answers with status st
PostResponds(st) ==
    /\ pc = "post"
    /\ posts' = posts + 1
    /\ status' = st
    /\ IF st # StatusOK
       THEN Finish("bad_status", Ret(None))
       ELSE /\ pc' = "stream"
            /\ UNCHANGED <<outcome, response>>
    /\ full_response' = <<>>
    /\ UNCHANGED <<documents, llm_params, caller, query, doc_scores, context, messages,
                   kwargs, payload, llm_calls, arrived, tokenizer, result>>

\* the stream yields the line ev
ReadLine(ev) ==
    /\ pc = "stream"
    /\ Len(arrived) < MaxLines
    /\ arrived' = Append(arrived, ev)
    /\ LET o == ProcessLine(full_response, ev)
       IN  IF o.raised
           THEN /\ Finish("event_error", StreamExcept(full_response))
                /\ UNCHANGED full_response
           ELSE /\ full_response' = o.val
                /\ UNCHANGED <<pc, outcome, response>>
    /\ UNCHANGED <<documents, llm_params, caller, query, doc_scores, context, messages,
                   kwargs, payload, posts, llm_calls, status, tokenizer, result>>

\* reading the stream raises (the connection breaks, the timeout expires)
StreamRaises ==
    /\ pc = "stream"
    /\ Finish("stream_error", StreamExcept(full_response))
    /\ UNCHANGED <<documents, llm_params, caller, query, doc_scores, context, messages,
                   kwargs, payload, posts, llm_calls, status, arrived, full_response,
                   tokenizer, result>>

\* the stream ends
StreamEnds ==
    /\ pc = "stream"
    /\ Finish("stream_end", StreamEnd(full_response))
    /\ UNCHANGED <<documents, llm_params, caller, query, doc_scores, context, messages,
                   kwargs, payload, posts, llm_calls, status, arrived, full_response,
                   tokenizer, result>>

\* asearch from agenerate's return to its own
AsearchFinish(enc) ==
    /\ pc = "returned"
    /\ caller = "asearch"
    /\ tokenizer' = enc
    /\ result' = AsearchCatch(AsearchBody(context, query, response, enc))
    /\ pc' = "done"
    /\ UNCHANGED <<documents, llm_params, caller, query, doc_scores, context, messages,
                   kwargs, payload, posts, llm_calls, status, arrived, full_response,
                   outcome, response>>

Next ==
    \/ \E q \in SearchQueries : AsearchStart(q)
    \/ \E msgs \in DirectMessages, kw \in DirectKwargs : DirectGenerate(msgs, kw)
    \/ \E how \in {"connect_error", "timeout"} : PostFails(how)
    \/ \E st \in Statuses : PostResponds(st)
    \/ \E ev \in Events : ReadLine(ev)
    \/ StreamRaises
    \/ StreamEnds
    \/ \E enc \in {"ok", "raise"} : AsearchFinish(enc)

Spec == Init /\ [][Next]_vars

\* build_context(q) called on its own
BuildContextCall(q) ==
    /\ pc = "idle"
    /\ query' = q
    /\ doc_scores' = ScoreAll(documents, q)
    /\ context' = BuildContext(documents, q)
    /\ pc' = "context"
    /\ UNCHANGED <<documents, llm_params, caller, messages, kwargs, payload, posts,
                   llm_calls, status, arrived, full_response, outcome, response, tokenizer,
                   result>>

InitRetrieval ==
    /\ documents \in Stores
    /\ llm_params = [max_tokens |-> 1500, temperature |-> 0]
    /\ InitCall

\* the retriever on every store and query, called on its own and by asearch
\* while the inference server cannot be reached
NextRetrieval ==
    \/ \E q \in Queries : BuildContextCall(q)
    \/ \E q \in SearchQueries : AsearchStart(q)
    \/ \E how \in {"connect_error", "timeout"} : PostFails(how)
    \/ \E enc \in {"ok", "raise"} : AsearchFinish(enc)

SpecRetrieval == InitRetrieval /\ [][NextRetrieval]_vars

-----------------------------------------------------------------------------
(* Properties *)

IsToken(ev) == ev.line = "data" /\ ev.json = "token"

NumTokens(evs) == Cardinality({i \in 1..Len(evs) : IsToken(evs[i])})

RECURSIVE TokenConcat(_)
\* the text of the well-formed token events of evs, concatenated in order
TokenConcat(evs) ==
    IF evs = <<>> THEN <<>>
    ELSE (IF IsToken(Head(evs)) THEN Head(evs).text ELSE <<>>) \o TokenConcat(Tail(evs))

\* r is s without its leading and trailing whitespace
IsStripOf(r, s) ==
    \E i \in 0..Len(s) : \E j \in 0..(Len(s) - i) :
        /\ \A k \in 1..i : s[k] = " "
        /\ \A k \in (Len(s) - j + 1)..Len(s) : s[k] = " "
        /\ Len(r) = Len(s) - i - j
        /\ \A k \in 1..Len(r) : r[k] = s[i + k]
        /\ (r # <<>> => r[1] # " " /\ r[Len(r)] # " ")

Called == pc \in {"post", "stream", "returned", "done"}
Returned == pc \in {"returned", "done"}
Sent == pc \in {"post", "stream"} \/ (Returned /\ outcome # "bad_messages")

\* C1: in asearch, whenever the apology is substituted for an empty
\* generation the result has success = false, and success = true only when the
\* generation client returned a non-empty response.
C1_SubstitutionIsNotSuccess ==
    (pc = "done" /\ caller = "asearch") =>
        /\ (result.val.response = Apology => ~result.val.success)
        /\ (result.val.success => Truthy(response.val))

\* the i-th document as build_context's fallback would record it: score 0
FallbackRow(i) ==
    [text |-> documents[i].text, score |-> 0, source |-> documents[i].metadata.source]

\* C2: on a non-empty store in which no document scores above 0,
\* build_context selects the first min(5, store size) documents in store
\* order, each with score 0, in the records and in the context text.
C2_FallbackSelectsStorePrefix ==
    (pc = "context" /\ documents # <<>>
        /\ \A i \in 1..Len(documents) : doc_scores[i] = 0) =>
        /\ Len(context.context_records) = Min(TopK, Len(documents))
        /\ \A i \in 1..Len(context.context_records) :
              context.context_records[i] = FallbackRow(i)
        /\ Len(context.context_chunks.blocks) = Min(TopK, Len(documents))
        /\ \A i \in 1..Len(context.context_chunks.blocks) :
              /\ context.context_chunks.blocks[i].source = documents[i].metadata.source
              /\ context.context_chunks.blocks[i].score = 0

\* the body's field carries the caller's value for keyword k, and the
\* client's default only when the caller gave none
Carries(field, k, default) ==
    payload.parameters[field] = (IF k \in DOMAIN kwargs THEN kwargs[k] ELSE default)

\* C3: the JSON body posted for asearch's agenerate call carries the
\* caller's max_tokens, temperature, top_p and repetition_penalty; the client's
\* defaults appear only for parameters the caller did not supply.
C3_BodyCarriesCallerParameters ==
    (caller = "asearch" /\ Sent) =>
        /\ Carries("max_new_tokens", "max_tokens", DefaultMaxNewTokens)
        /\ Carries("temperature", "temperature", DefaultTemperature)
        /\ Carries("top_p", "top_p", DefaultTopP)
        /\ Carries("repetition_penalty", "repetition_penalty", DefaultRepetitionPenalty)

\* what agenerate returns for a status-200 stream that ends normally with no text
EmptySuccess == AgenerateReturn(ExecuteLlmCatch(StreamEnd(<<>>)))

\* the call failed before any token was accumulated
TotalFailure ==
    \/ outcome \in {"connect_error", "timeout", "bad_status"}
    \/ outcome = "stream_error" /\ NumTokens(arrived) = 0

\* C4: a generation call that hits a transport error or a non-2xx status
\* before any token was accumulated returns a value the caller can tell apart
\* from the value of a successful generation that produced empty text.
C4_NoResultDistinctFromEmptySuccess ==
    (Returned /\ TotalFailure) => response # EmptySuccess

\* the stream raised after at least one well-formed token event
PartialFailure ==
    /\ Returned
    /\ NumTokens(arrived) >= 1
    /\ \/ outcome = "stream_error"
       \/ outcome = "event_error" /\ arrived[Len(arrived)].line = "bad_utf8"

\* C5 as stated: after N >= 1 well-formed token events and then a transport or
\* decode error, the call returns a non-empty string equal to the
\* concatenation of the N tokens' text in arrival order.
C5_PartialIsConcatenation ==
    PartialFailure =>
        /\ ~response.raised
        /\ response.val.text = TokenConcat(arrived)
        /\ response.val.text # <<>>

\* C5 as amended: after N >= 1 well-formed token events and then a transport
\* or decode error, the call returns the concatenation of the N tokens' text in
\* arrival order with its leading and trailing whitespace removed, which is
\* the empty string when that text is empty or all whitespace.
C5_PartialIsStrippedConcatenation ==
    PartialFailure =>
        /\ ~response.raised
        /\ response.val.kind = "str"
        /\ IsStripOf(response.val.text, TokenConcat(arrived))

\* two tokens arrived, the stream raised, and the partial text was returned stripped
C5_Witness ==
    /\ pc = "returned"
    /\ outcome = "stream_error"
    /\ NumTokens(arrived) >= 2
    /\ response.val.text # <<>>
    /\ response.val.text # TokenConcat(arrived)

\* every line that arrived is a well-formed token event or malformed JSON
OnlyTokensAndMalformed ==
    \A i \in 1..Len(arrived) :
        arrived[i].line = "data" /\ arrived[i].json \in {"token", "malformed"}

\* C6 as stated: on a status-200 stream in which some data lines carry
\* malformed JSON, the result equals the concatenation, in arrival order, of
\* the token text of exactly the well-formed events, and events after a
\* malformed line are still decoded.
C6_ResultIsConcatenation ==
    (Returned /\ status = StatusOK /\ OnlyTokensAndMalformed) =>
        /\ outcome # "event_error"
        /\ (outcome = "stream_end" => response.val.text = TokenConcat(arrived))

\* C6 as amended: on such a stream a malformed line never ends the call, and
\* the result is the concatenation, in arrival order, of the token text of
\* exactly the well-formed events with its leading and trailing whitespace
\* removed.
C6_ResultIsStrippedConcatenation ==
    (Returned /\ status = StatusOK /\ OnlyTokensAndMalformed) =>
        /\ outcome # "event_error"
        /\ (outcome = "stream_end" =>
               /\ ~response.raised
               /\ response.val.kind = "str"
               /\ IsStripOf(response.val.text, TokenConcat(arrived)))

\* a token, a malformed line and another token arrived, and the stream ended
C6_Witness ==
    /\ pc = "returned"
    /\ outcome = "stream_end"
    /\ arrived = <<TokenEvent(<<"a">>),
                   [line |-> "data", json |-> "malformed", text |-> <<>>],
                   TokenEvent(<<"b">>)>>
    /\ response.val.text = <<"a", "b">>

\* asearch's try block raised
SearchRaised == pc = "done" /\ tokenizer = "raise"

\* the result of a failed search, but for its metrics
FailedSearchResult ==
    /\ ~result.raised
    /\ result.val.success = FALSE
    /\ result.val.matched_docs = 0
    /\ result.val.response =
          <<"An error occurred while processing your query: ", "encode failed">>

Failure ==
    \/ outcome \in {"connect_error", "timeout", "bad_status", "bad_messages"}
    \/ outcome \in {"stream_error", "event_error"} /\ NumTokens(arrived) = 0

\* C8: agenerate never raises, and on a refused connection, a timeout, a
\* non-2xx status, an exception while reading the stream with no token
\* accumulated, or malformed messages it returns the empty string.
C8_FailureReturnsEmptyString ==
    Returned =>
        /\ ~response.raised
        /\ (Failure => response.val = Str(<<>>))

\* the stream raised after lines that carried no token
C8_Witness ==
    /\ pc = "returned"
    /\ outcome = "stream_error"
    /\ Len(arrived) >= 1
    /\ NumTokens(arrived) = 0
    /\ response.val = Str(<<>>)

\* build_context has run on the query
Built == pc = "context" \/ (caller = "asearch" /\ Called)

\* where the whitespace-separated terms of q lie: each maximal run <<s, e>>
\* of symbols that are not whitespace
TermRuns(q) ==
    {r \in (1..Len(q)) \X (1..Len(q)) :
        /\ r[1] <= r[2]
        /\ \A k \in r[1]..r[2] : q[k] # " "
        /\ (r[1] = 1 \/ q[r[1] - 1] = " ")
        /\ (r[2] = Len(q) \/ q[r[2] + 1] = " ")}

\* the term of q at run r, lower-cased
TermAt(q, r) == [k \in 1..(r[2] - r[1] + 1) |-> LowerChar(q[r[1] + k - 1])]

\* the lower-cased term of q at run r is a substring of the lower-cased text
OccursIn(q, r, text) ==
    \E off \in 0..(Len(text) - (r[2] - r[1] + 1)) :
        \A k \in 0..(r[2] - r[1]) : LowerChar(text[off + 1 + k]) = LowerChar(q[r[1] + k])

\* every row of the records carries the score computed for its document
RowsCarryScores ==
    \A k \in 1..Len(context.context_records) :
        context.context_records[k].score = doc_scores[context.context_records[k].source]

\* C9 as stated: the score of a document is the number of distinct
\* lower-cased, whitespace-separated query terms that occur as a substring of
\* its lower-cased text; a term repeated in the query counts once.
C9_ScoreCountsDistinctTerms ==
    Built =>
        \A i \in 1..Len(documents) :
            doc_scores[i] =
                Cardinality({TermAt(query, r) :
                               r \in {x \in TermRuns(query) :
                                         OccursIn(query, x, documents[i].text)}})

\* C9 as amended: the score of a document is the number of lower-cased,
\* whitespace-separated query terms, each occurrence in the query counted,
\* that occur as a substring of its lower-cased text; a term that appears k
\* times in the query contributes k.
C9_ScoreCountsTermOccurrences ==
    Built =>
        /\ \A i \in 1..Len(documents) :
              doc_scores[i] =
                  Cardinality({r \in TermRuns(query) :
                                 OccursIn(query, r, documents[i].text)})
        /\ RowsCarryScores

\* the query "a a" gave a document the score 2
C9_Witness ==
    /\ pc = "context"
    /\ query = <<"a", " ", "a">>
    /\ \E i \in 1..Len(documents) : doc_scores[i] = 2

\* the documents that score above 0, by position in the store
Positive == {i \in 1..Len(documents) : doc_scores[i] > 0}

\* document i ranks before document j: a higher score, or the same score
\* and an earlier place in the store
RanksBefore(i, j) ==
    \/ doc_scores[i] > doc_scores[j]
    \/ doc_scores[i] = doc_scores[j] /\ i < j

\* the store positions of the rows of the records, in order
Selected == [k \in 1..Len(context.context_records) |-> context.context_records[k].source]

\* C10: whenever a document scores above 0, the matched documents are
\* exactly the first min(5, number of positive-score documents) of the
\* positive-score documents ordered by score descending, equal scores in store
\* order; no score-0 document is among them, there are at most 5, and
\* asearch's matched-document count is their number.
C10_TopRankedPositiveDocuments ==
    (Built /\ Positive # {}) =>
        LET n == Len(context.context_records)
        IN  /\ n = Min(5, Cardinality(Positive))
            /\ n <= 5
            /\ \A k \in 1..n : Selected[k] \in Positive
            /\ \A k \in 1..n :
                  context.context_records[k] =
                      [text |-> documents[Selected[k]].text,
                       score |-> doc_scores[Selected[k]],
                       source |-> Selected[k]]
            /\ \A k \in 1..n : \A l \in 1..n : k < l => RanksBefore(Selected[k], Selected[l])
            /\ \A i \in Positive :
                  (\A k \in 1..n : Selected[k] # i) =>
                      \A k \in 1..n : RanksBefore(Selected[k], i)
            /\ Len(context.context_chunks.blocks) = n
            /\ \A k \in 1..n :
                  /\ context.context_chunks.blocks[k].source = Selected[k]
                  /\ context.context_chunks.blocks[k].score = doc_scores[Selected[k]]
            /\ (pc = "done" /\ tokenizer = "ok") => result.val.matched_docs = n

\* asearch on a store where six documents score above 0, with different
\* scores, not in rank order, returned five
C10_Witness ==
    /\ pc = "done"
    /\ tokenizer = "ok"
    /\ Cardinality(Positive) = 6
    /\ result.val.matched_docs = 5
    /\ \E k \in 1..4 : Selected[k] > Selected[k + 1]
    /\ \E k \in 1..4 : Selected[k] < Selected[k + 1]
                          /\ doc_scores[Selected[k]] = doc_scores[Selected[k + 1]]

\* C11: no internal retry: a generation call issues at most one HTTP POST
\* whatever its outcome (exactly one once a prompt was built, none when the
\* messages were malformed), and an asearch call invokes the generation client
\* exactly once, also when it returns empty.
C11_NoRetry ==
    /\ posts <= 1
    /\ llm_calls <= 1
    /\ pc = "post" => posts = 0
    /\ pc = "stream" => posts = 1
    /\ Returned => /\ llm_calls = 1
                   /\ posts = (IF outcome = "bad_messages" THEN 0 ELSE 1)
    /\ (pc = "done" /\ caller = "asearch") => (llm_calls = 1 /\ posts = 1)

\* asearch ended with the apology after one timed-out POST and one agenerate call
C11_Witness ==
    /\ pc = "done"
    /\ caller = "asearch"
    /\ outcome = "timeout"
    /\ response.val = Str(<<>>)
    /\ tokenizer = "ok"
    /\ result.val.response = Apology
    /\ posts = 1
    /\ llm_calls = 1

\* a data event whose payload parses as JSON but has not the expected shape:
\* a number, null or boolean, a token that is no object, a text that is no str
WrongShape(ev) ==
    ev.line = "data" /\ ev.json \in {"scalar", "token_scalar", "text_not_str"}

\* every line that arrived is a well-formed token event or a wrong-shape event
OnlyTokensAndWrongShape ==
    \A i \in 1..Len(arrived) : IsToken(arrived[i]) \/ WrongShape(arrived[i])

\* C12: a data event whose payload parses as JSON but has not the expected
\* shape is skipped like a malformed one: it does not end the call, the tokens
\* accumulated before it are kept, and the well-formed events that arrive
\* after it are still appended to the result (returned stripped).
C12_WrongShapeIsSkipped ==
    (Returned /\ status = StatusOK /\ OnlyTokensAndWrongShape) =>
        /\ outcome # "event_error"
        /\ (outcome = "stream_end" =>
               IsStripOf(response.val.text, TokenConcat(arrived)))

====
